---- MODULE Spec2Model ----
(***************************************************************************)
(* Model of the continuousprint OctoPrint plugin                           *)
(* (src/continuousprint/__init__.py): the event handler on_event with its  *)
(* pending-action drain loop, the device callbacks (start_print,           *)
(* clear_bed, run_finish_script, cancel_print) and the request endpoints   *)
(* that edit the queue.  The driver (continuousprint/driver.py) and the    *)
(* queue store (continuousprint/print_queue.py) are imported by the plugin *)
(* but their code is not part of the sources at hand; they are modelled    *)
(* from the design document, sections 3, 4.1 and 4.2.                      *)
(*                                                                         *)
(* Python's None is 0 for a timestamp and "none" for a string.  A handler  *)
(* is a function from a state record to a state record; the field err     *)
(* holds the exception that is propagating, and a step is skipped while    *)
(* one propagates.                                                         *)
(***************************************************************************)
EXTENDS Integers, Sequences, FiniteSets, TLC

\* ------------------------------------------------------------------ bounds
MaxQueue == 2
MaxTime == 2
MaxPending == 1
RetriesSetting == 2
SecondsSetting == 0
MaxPauses == 4

\* --------------------------------------------------------------- constants
QUEUE_KEY == "cp_queue"
CLEARING_SCRIPT_KEY == "cp_bed_clearing_script"
FINISHED_SCRIPT_KEY == "cp_queue_finished_script"
TempFile(k) == IF k = FINISHED_SCRIPT_KEY THEN "cp_queue_finished_script.gcode"
               ELSE "cp_bed_clearing_script.gcode"
TEMP_FILES == {TempFile(FINISHED_SCRIPT_KEY), TempFile(CLEARING_SCRIPT_KEY)}

NoPath == "none"
NoTime == 0

\* The files on the host's storage: a printable file, and a path at which
\* there is no file, which select_file refuses with InvalidFileLocation.  (A
\* file that is not gcode is refused with InvalidFileType and meets the same
\* except clauses.)
GoodPath == "a.gcode"
MissingPath == "gone.gcode"
FileStatus(p) == IF p = MissingPath THEN "InvalidFileLocation" ELSE "ok"

\* The identities a queue entry can have (name, path, sd, job, run).
Pool == { [name |-> "A", path |-> GoodPath, sd |-> FALSE, job |-> "j1", run |-> 0],
          [name |-> "C", path |-> MissingPath, sd |-> FALSE, job |-> "j2", run |-> 0] }

\* QueueItem(name, path, sd, job, run, start_ts, end_ts, result, retries)
QueueItem(id, st, en, res, rt) ==
    [name |-> id.name, path |-> id.path, sd |-> id.sd, job |-> id.job, run |-> id.run,
     start_ts |-> st, end_ts |-> en, result |-> res, retries |-> rt]

VARIABLES
    inited,     \* hasattr(self, "d"): on_after_startup has run
    q,          \* the queue: a sequence of QueueItem
    active,     \* driver.active
    routine,    \* the temporary routine the driver has running: none/clearing/finish
    pending,    \* the driver's deferred actions, oldest first
    window,     \* the pause window: [open, first, retries, failed]
    policy,     \* the driver's retry policy: [enabled, maxRetries, maxSeconds]
    settings,   \* the plugin settings the policy is read from
    paused,     \* self.paused: "unset" until a print event is handled
    pstate,     \* the printer's state id
    sel,        \* the printer's selected file
    tail,       \* an event of the host still to be delivered
    resumeAck,  \* the printer resumed on the driver's command; PRINT_RESUMED is due
    temps,      \* the temporary files that exist in the host's storage
    now,        \* the clock, in seconds
    resumes     \* resume commands issued so far for the entry in progress and in
                \* the open pause window (observation only)

vars == <<inited, q, active, routine, pending, window, policy, settings,
          paused, pstate, sel, tail, resumeAck, temps, now, resumes>>

NoWindow == [open |-> FALSE, first |-> 0, retries |-> 0, failed |-> FALSE]
NoResumes == [entry |-> 0, window |-> 0]
NoTail == [ev |-> "none", path |-> NoPath, reason |-> "none", cur |-> FALSE, calls |-> <<>>]

\* ------------------------------------------------------------ queue store
\* QueueStore of the design (section 4.1), the PrintQueue the plugin imports.
Idxs(qq) == 1..Len(qq)

SeqRemove(qq, i, n) ==
    [k \in 1..(Len(qq) - n) |-> IF k < i THEN qq[k] ELSE qq[k + n]]

SeqInsert(qq, items, i) ==
    [k \in 1..(Len(qq) + Len(items)) |->
        IF k < i THEN qq[k]
        ELSE IF k < i + Len(items) THEN items[k - i + 1]
        ELSE qq[k - Len(items)]]

\* add(entries, atIndex): indices are 0-based as in the requests; an index past
\* the end is clamped to the length.
QueueAdd(qq, items, idx) ==
    LET at == IF idx > Len(qq) THEN Len(qq) ELSE IF idx < 0 THEN 0 ELSE idx
    IN SeqInsert(qq, items, at + 1)

\* remove(atIndex, count): the part of [idx, idx+count) inside the queue goes.
QueueRemove(qq, idx, count) ==
    IF idx < 0 \/ idx >= Len(qq) \/ count <= 0 THEN qq
    ELSE LET n == IF idx + count > Len(qq) THEN Len(qq) - idx ELSE count
         IN SeqRemove(qq, idx + 1, n)

\* move(i, count, offset): the block [i, i+count) goes to i+offset; a block or a
\* target outside the queue is a no-op.
QueueMove(qq, idx, count, offs) ==
    IF idx < 0 \/ count <= 0 \/ idx + count > Len(qq)
       \/ idx + offs < 0 \/ idx + offs + count > Len(qq) THEN qq
    ELSE LET block == SubSeq(qq, idx + 1, idx + count)
         IN SeqInsert(SeqRemove(qq, idx + 1, count), block, idx + offs + 1)

\* assign(entries): the queue becomes the given entries.
QueueAssign(qq, items) == items

\* ------------------------------------------------------------------ state
\* The state a handler works on.
Cur == [q |-> q, active |-> active, routine |-> routine,
        pending |-> pending, window |-> window, policy |-> policy,
        settings |-> settings, paused |-> paused, pstate |-> pstate, sel |-> sel,
        resumeAck |-> resumeAck, temps |-> temps, now |-> now,
        calls |-> <<>>, cmds |-> <<>>, ready |-> <<>>, msgs |-> {}, err |-> "none"]

\* A handler's record carries, besides the state, what it did: calls, the
\* driver's outcome handlers invoked; cmds, the device commands issued, each
\* with the printer state it met; msgs, the kinds of user message sent; err,
\* the exception that is leaving it.
Ok(s) == s.err = "none"
Raise(s, e) == IF Ok(s) THEN [s EXCEPT !.err = e] ELSE s

Msg(s, kind) == [s EXCEPT !.msgs = @ \cup {kind}]
Cmd(s, c, n) == [s EXCEPT !.cmds = Append(@, [c |-> c, n |-> n, ps |-> s.pstate])]
Call(s, h) == [s EXCEPT !.calls = Append(@, h)]

HasCmd(s, c) == \E k \in 1..Len(s.cmds) : s.cmds[k].c = c
Issued(s, c, n) == \E k \in 1..Len(s.cmds) : s.cmds[k].c = c /\ s.cmds[k].n = n

\* ---------------------------------------------------------------- printer
\* self._printer of the host: select_file and start_print return without
\* effect while the printer is busy; otherwise the file is selected and printed.
PrinterPrint(s, path) ==
    IF s.pstate = "OPERATIONAL" THEN [s EXCEPT !.pstate = "PRINTING", !.sel = path]
    ELSE s

\* ------------------------------------------------------- device callbacks
\* _write_temp_gcode(key): the file TEMP_FILES[key] is written.
_write_temp_gcode(s, key) == [s EXCEPT !.temps = @ \cup {TempFile(key)}]

\* _rm_temp_files(): every temporary file that exists is removed.
_rm_temp_files(s) == [s EXCEPT !.temps = @ \ TEMP_FILES]

\* run_finish_script: message, write the temporary file, select and print it.
run_finish_script(s) ==
    PrinterPrint(_write_temp_gcode(Cmd(Msg(s, "complete"), "finish", "-"),
                                   FINISHED_SCRIPT_KEY),
                 TempFile(FINISHED_SCRIPT_KEY))

\* clear_bed: write the temporary file, select and print it.
clear_bed(s) ==
    PrinterPrint(_write_temp_gcode(Cmd(s, "clear", "-"), CLEARING_SCRIPT_KEY),
                 TempFile(CLEARING_SCRIPT_KEY))

\* The names InvalidFileLocation and InvalidFileType of the except clauses are
\* bound by no import of the module: matching the exception that select_file
\* raised evaluates the first of them and raises NameError in its place.
ExceptClause(e) == "NameError"

\* start_print(item): two messages, then select_file and start_print in a try.
start_print(s, item) ==
    LET s1 == Cmd(Msg(Msg(s, "popup"), "reload"), "start", item.path)
    IN IF s1.pstate # "OPERATIONAL" THEN s1
       ELSE IF FileStatus(item.path) = "ok" THEN PrinterPrint(s1, item.path)
       ELSE LET h == ExceptClause(FileStatus(item.path))
            IN IF h = "handled" THEN Msg(s1, "error") ELSE Raise(s1, h)

\* ----------------------------------------------------------------- driver
\* ContinuousPrintDriver, after section 4.2 of the design.
CurIdx(qq) ==
    IF \E i \in Idxs(qq) : qq[i].start_ts # NoTime /\ qq[i].end_ts = NoTime
    THEN CHOOSE i \in Idxs(qq) :
            /\ qq[i].start_ts # NoTime /\ qq[i].end_ts = NoTime
            /\ \A j \in 1..(i - 1) : ~(qq[j].start_ts # NoTime /\ qq[j].end_ts = NoTime)
    ELSE 0

NextIdx(qq) ==
    IF \E i \in Idxs(qq) : qq[i].start_ts = NoTime
    THEN CHOOSE i \in Idxs(qq) :
            qq[i].start_ts = NoTime /\ \A j \in 1..(i - 1) : qq[j].start_ts # NoTime
    ELSE 0

\* currentPath(): the file of the routine running, else of the entry in progress.
current_path(s) ==
    IF s.routine = "clearing" THEN TempFile(CLEARING_SCRIPT_KEY)
    ELSE IF s.routine = "finish" THEN TempFile(FINISHED_SCRIPT_KEY)
    ELSE IF CurIdx(s.q) # 0 THEN s.q[CurIdx(s.q)].path
    ELSE NoPath

pending_actions(s) == Len(s.pending)

Defer(s, a) == [s EXCEPT !.pending = Append(@, a)]

\* Advance-when-idle: start the first unstarted entry, or run the finish routine.
Advance(s) ==
    IF ~s.active THEN s
    ELSE LET i == NextIdx(s.q)
         IN IF i # 0
            THEN LET s1 == start_print(s, s.q[i])
                 IN IF Ok(s1)
                    THEN [s1 EXCEPT !.q[i].start_ts = s1.now]
                    ELSE s1
            ELSE LET s1 == run_finish_script(s)
                 IN [s1 EXCEPT !.routine = "finish"]

\* onPrinterReady(): take the oldest deferred action and perform it.
on_printer_ready(s) ==
    IF s.pending = <<>> THEN s
    ELSE Advance([s EXCEPT !.pending = Tail(@)])

\* setActive(active, printer_ready)
driver_set_active(s, a, ready) ==
    IF a /\ ~s.active
    THEN LET s1 == [s EXCEPT !.active = TRUE]
         IN IF ready THEN Advance(s1) ELSE Defer(s1, "advance")
    ELSE IF ~a /\ s.active
    THEN [s EXCEPT !.active = FALSE]
    ELSE s

Complete(qq, i, res) ==
    IF i = 0 THEN qq ELSE [qq EXCEPT ![i].end_ts = res.at, ![i].result = res.result]

\* onPrintSuccess(isFinishRoutine)
on_print_success(s, is_finish_script) ==
    IF is_finish_script
    THEN [s EXCEPT !.active = FALSE, !.routine = "none", !.window = NoWindow]
    ELSE IF s.routine = "clearing"
    THEN Defer([s EXCEPT !.routine = "none"], "advance")
    ELSE LET i == CurIdx(s.q)
             s1 == [s EXCEPT !.q = Complete(@, i, [at |-> s.now, result |-> "success"]),
                             !.window = NoWindow]
             s2 == clear_bed(s1)
         IN [s2 EXCEPT !.routine = "clearing"]

\* onPrintFailed()
on_print_failed(s) ==
    LET i == CurIdx(s.q)
    IN Defer([s EXCEPT !.q = Complete(@, i, [at |-> s.now, result |-> "failure"]),
                       !.window = NoWindow, !.routine = "none"],
             "advance")

\* onPrintCancelled()
on_print_cancelled(s) ==
    LET i == CurIdx(s.q)
        s1 == [s EXCEPT !.q = IF i = 0 THEN @ ELSE [@ EXCEPT ![i].end_ts = s.now],
                        !.routine = "none"]
    IN IF s1.active THEN Defer(s1, "advance") ELSE s1

\* The resume command of the retry policy: a paused printer prints again and
\* the host will report PRINT_RESUMED.
Resume(s) ==
    LET s1 == Cmd(s, "resume", "-")
    IN IF s1.pstate = "PAUSED" THEN [s1 EXCEPT !.pstate = "PRINTING", !.resumeAck = TRUE]
       ELSE s1

\* onPrintPaused(isTempFile)
on_print_paused(s, is_temp_file) ==
    IF ~s.policy.enabled \/ is_temp_file THEN s
    ELSE LET i == CurIdx(s.q)
             w0 == IF s.window.open THEN s.window
                   ELSE [open |-> TRUE, first |-> s.now, retries |-> 0, failed |-> FALSE]
             w1 == [w0 EXCEPT !.retries = @ + 1]
             s1 == [s EXCEPT !.q = IF i = 0 THEN @ ELSE [@ EXCEPT ![i].retries = @ + 1]]
         IN IF w1.retries > s.policy.maxRetries \/ s.now - w1.first > s.policy.maxSeconds
            THEN [s1 EXCEPT !.window = [w1 EXCEPT !.failed = TRUE]]
            ELSE Resume([s1 EXCEPT !.window = w1])

\* onPrintResumed()
on_print_resumed(s) ==
    IF s.window.open /\ s.window.failed
    THEN [s EXCEPT !.window = NoWindow]
    ELSE s

\* set_retry_on_pause(enabled, max_retries, max_seconds)
set_retry_on_pause(s, e, r, t) ==
    [s EXCEPT !.policy = [enabled |-> e, maxRetries |-> r, maxSeconds |-> t]]

\* ----------------------------------------------------------------- plugin
_update_driver_settings(s) ==
    set_retry_on_pause(s, s.settings.enabled, s.settings.maxRetries, s.settings.maxSeconds)

\* One pass of the loop's body: the log line "on_printer_ready", kept with the
\* printer's state and the number of pending actions it is written in, then the
\* driver's on_printer_ready.
ReadyPass(s) ==
    on_printer_ready([s EXCEPT !.ready = Append(@, [ps |-> s.pstate,
                                                    pending |-> pending_actions(s)])])

\* The loop without its test of the printer's state.
RECURSIVE DrainAnyState(_)
DrainAnyState(s) ==
    IF Ok(s) /\ pending_actions(s) > 0
    THEN DrainAnyState(ReadyPass(s))
    ELSE s

\* The loop testing only that no print is running.
RECURSIVE DrainUnlessPrinting(_)
DrainUnlessPrinting(s) ==
    IF Ok(s) /\ s.pstate # "PRINTING" /\ pending_actions(s) > 0
    THEN DrainUnlessPrinting(ReadyPass(s))
    ELSE s

\* The while loop that ends on_event: perform deferred actions as long as the
\* printer is OPERATIONAL and some are pending.
RECURSIVE Drain(_)
Drain(s) ==
    IF Ok(s) /\ s.pstate = "OPERATIONAL" /\ pending_actions(s) > 0
    THEN Drain(ReadyPass(s))
    ELSE s

\* The path test without the comparison.
is_current_pathAlways(s, payload) == TRUE

\* is_current_path: the payload's path is the driver's current path; an event
\* that carries no path has path = NoPath, as payload.get('path') gives None.
is_current_path(s, payload) == payload.path = current_path(s)

\* The comparison made with the clearing routine's file.
is_finish_scriptClearing(payload) == payload.path = TempFile(CLEARING_SCRIPT_KEY)

\* is_finish_script: the payload's path is the finish routine's temporary file.
is_finish_script(payload) == payload.path = TempFile(FINISHED_SCRIPT_KEY)

\* The test of the reason left out.
NotCancelledAlways(payload) == TRUE

\* payload["reason"] != "cancelled"
NotCancelled(payload) == payload.reason # "cancelled"

\* The pause of a temporary file taken for the pause of an entry.
is_temp_fileNever(payload) == FALSE

\* is_temp_file=(payload['path'] in TEMP_FILES.values())
is_temp_file(payload) == payload.path \in TEMP_FILES

\* The if/elif chain of on_event after its first branch.
Dispatch(s, event, payload) ==
    IF (is_current_path(s, payload) \/ is_finish_script(payload)) /\ event = "PrintDone"
    THEN Msg([on_print_success(Call(s, "on_print_success"), is_finish_script(payload))
                 EXCEPT !.paused = "false"], "reload")
    ELSE IF is_current_path(s, payload) /\ event = "PrintFailed" /\ NotCancelled(payload)
    THEN Msg([on_print_failed(Call(s, "on_print_failed"))
                 EXCEPT !.paused = "false"], "reload")
    ELSE IF is_current_path(s, payload) /\ event = "PrintCancelled"
    THEN Msg([on_print_cancelled(Call(s, "on_print_cancelled"))
                 EXCEPT !.paused = "false"], "reload")
    ELSE IF is_current_path(s, payload) /\ event = "PrintPaused"
    THEN Msg([on_print_paused(Call(s, "on_print_paused"), is_temp_file(payload))
                 EXCEPT !.paused = "true"], "reload")
    ELSE IF is_current_path(s, payload) /\ event = "PrintResumed"
    THEN Msg([on_print_resumed(Call(s, "on_print_resumed"))
                 EXCEPT !.paused = "false"], "reload")
    ELSE IF event = "PrinterStateChanged" /\ s.pstate = "OPERATIONAL"
    THEN Msg(s, "reload")
    ELSE IF event = "UpdatedFiles"
    THEN Msg(s, "updatefiles")
    ELSE IF event = "SettingsUpdated"
    THEN _update_driver_settings(s)
    ELSE s

\* The early return taken whatever the printer's state.
KeepTempFilesAnyState(s) ==
    \E path \in TEMP_FILES : s.sel = path

\* The METADATA_ANALYSIS_FINISHED branch: it returns early, before the loop,
\* when the printer is busy with one of the temporary files selected.
KeepTempFiles(s) ==
    s.pstate # "OPERATIONAL" /\ \E path \in TEMP_FILES : s.sel = path

\* on_event without the loop that ends it.
on_eventNoDrain(s, event, payload) ==
    IF event = "MetadataAnalysisFinished"
    THEN IF KeepTempFiles(s) THEN s ELSE _rm_temp_files(s)
    ELSE Dispatch(s, event, payload)

\* on_event(event, payload) once the driver exists.
on_event(s, event, payload) ==
    IF event = "MetadataAnalysisFinished"
    THEN IF KeepTempFiles(s) THEN s ELSE Drain(_rm_temp_files(s))
    ELSE Drain(Dispatch(s, event, payload))

\* The queue is stored in the settings under QUEUE_KEY and outlives the
\* process: "[]" by default, or the entries an earlier run left.
Fresh(id) == QueueItem(id, NoTime, NoTime, "none", 0)
StoredQueues == { <<Fresh(CHOOSE id \in Pool : id.name = "A")>>,
                  <<Fresh(CHOOSE id \in Pool : id.name = "A"),
                    Fresh(CHOOSE id \in Pool : id.name = "A")>> }

InitWith(queues) ==
    /\ inited = FALSE
    /\ q \in queues
    /\ active = FALSE
    /\ routine = "none"
    /\ pending = <<>>
    /\ window = NoWindow
    /\ policy = [enabled |-> FALSE, maxRetries |-> 0, maxSeconds |-> 0]
    /\ settings \in [enabled : {FALSE}, maxRetries : {RetriesSetting},
                     maxSeconds : {SecondsSetting}]
    /\ paused = "unset"
    /\ pstate = "OPERATIONAL"
    /\ sel = NoPath
    /\ tail = NoTail
    /\ resumeAck = FALSE
    /\ temps \in SUBSET TEMP_FILES
    /\ now = 1
    /\ resumes = NoResumes

Init == InitWith({<<>>})
InitPause == InitWith(StoredQueues)

\* ---------------------------------------------------------------- actions
\* The state after a handler ran on s; the printer's part of s has already
\* taken the host's transition that the operation reports.
Commit(s) ==
    /\ q' = s.q
    /\ active' = s.active
    /\ routine' = s.routine
    /\ pending' = s.pending
    /\ window' = s.window
    /\ policy' = s.policy
    /\ settings' = s.settings
    /\ paused' = s.paused
    /\ pstate' = s.pstate
    /\ sel' = s.sel
    /\ resumeAck' = s.resumeAck
    /\ temps' = s.temps
    /\ resumes' = LET n == Cardinality({k \in 1..Len(s.cmds) : s.cmds[k].c = "resume"})
                  IN [entry |-> IF CurIdx(s.q) = 0 \/ HasCmd(s, "start") THEN 0
                                ELSE resumes.entry + n,
                      window |-> IF ~s.window.open THEN 0
                                 ELSE IF window.open THEN resumes.window + n
                                 ELSE n]

Payload(path, reason) == [path |-> path, reason |-> reason]

\* An event on its way to on_event: pre is the state it meets, the printer
\* having taken the transition that the event reports.
Arrival(event, path, reason, pre) ==
    [event |-> event, payload |-> Payload(path, reason), pre |-> pre]

\* on_event(event, payload); it ignores what arrives before on_after_startup.
Handle(a) == IF inited THEN on_event(a.pre, a.event, a.payload) ELSE a.pre

IsCurrent(a) == a.payload.path = current_path(a.pre)

Deliver(a) ==
    /\ Commit(Handle(a))
    /\ UNCHANGED <<inited, now>>

\* on_after_startup: the queue and the driver are created, the policy is read
\* from the settings and the temporary files of earlier runs are removed.
OnAfterStartup ==
    /\ ~inited
    /\ inited' = TRUE
    /\ Commit(_rm_temp_files(_update_driver_settings(Cur)))
    /\ UNCHANGED <<tail, now>>

\* The host delivers events one at a time: the second report of a cancellation
\* and the report of a commanded resume come before anything else.
Quiet == tail = NoTail /\ ~resumeAck

Idle == [Cur EXCEPT !.pstate = "OPERATIONAL"]

\* An operator prints a file by hand.
ManualPaths == {"other.gcode"}
StartedArrivals ==
    IF Quiet /\ pstate = "OPERATIONAL"
    THEN { Arrival("PrintStarted", path, "none",
                   [Cur EXCEPT !.pstate = "PRINTING", !.sel = path]) : path \in ManualPaths }
    ELSE {}
EnvPrintStarted == \E a \in StartedArrivals : Deliver(a) /\ UNCHANGED tail

\* The print of the selected file ends well; the printer is idle again.
DoneArrivals ==
    IF Quiet /\ pstate = "PRINTING" THEN { Arrival("PrintDone", sel, "none", Idle) } ELSE {}
EnvPrintDone == \E a \in DoneArrivals : Deliver(a) /\ UNCHANGED tail

\* The print of the selected file fails.
FailedArrivals ==
    IF Quiet /\ pstate \in {"PRINTING", "PAUSED"}
    THEN { Arrival("PrintFailed", sel, "error", Idle) }
    ELSE {}
EnvPrintFailed == \E a \in FailedArrivals : Deliver(a) /\ UNCHANGED tail

\* The print of the selected file is cancelled.  The host reports it as
\* PRINT_CANCELLED, as PRINT_FAILED with reason "cancelled", or as both in
\* either order; the second report waits in tail, with what the first one met
\* (cur: its path was the driver's current path) and did (calls).
CancelEvent(k) == IF k = "C" THEN [ev |-> "PrintCancelled", reason |-> "none"]
                  ELSE [ev |-> "PrintFailed", reason |-> "cancelled"]
CancelArrivals(first) ==
    IF Quiet /\ pstate \in {"PRINTING", "PAUSED"}
    THEN { Arrival(CancelEvent(first).ev, sel, CancelEvent(first).reason, Idle) }
    ELSE {}
SecondReport(first, a) ==
    LET e == CancelEvent(IF first = "C" THEN "F" ELSE "C")
    IN [ev |-> e.ev, path |-> a.payload.path, reason |-> e.reason,
        cur |-> IsCurrent(a), calls |-> Handle(a).calls]
EnvPrintCancelled ==
    \E first \in {"C", "F"}, both \in BOOLEAN :
        \E a \in CancelArrivals(first) :
            /\ Deliver(a)
            /\ tail' = IF both THEN SecondReport(first, a) ELSE NoTail

\* The second report of a cancellation arrives.
TailArrivals ==
    IF tail # NoTail THEN { Arrival(tail.ev, tail.path, tail.reason, Cur) } ELSE {}
EnvTail == \E a \in TailArrivals : Deliver(a) /\ tail' = NoTail

\* The printer pauses.
PausedArrivals ==
    IF Quiet /\ pstate = "PRINTING" /\ (CurIdx(q) # 0 => q[CurIdx(q)].retries < MaxPauses)
    THEN { Arrival("PrintPaused", sel, "none", [Cur EXCEPT !.pstate = "PAUSED"]) }
    ELSE {}
EnvPrintPaused == \E a \in PausedArrivals : Deliver(a) /\ UNCHANGED tail

\* PRINT_RESUMED: an operator resumes the paused printer, or the report of the
\* resume the driver commanded arrives.
ResumedArrivals ==
    IF tail = NoTail /\ (resumeAck \/ pstate = "PAUSED")
    THEN { Arrival("PrintResumed", sel, "none",
                   [Cur EXCEPT !.pstate = "PRINTING", !.resumeAck = FALSE]) }
    ELSE {}
EnvPrintResumed == \E a \in ResumedArrivals : Deliver(a) /\ UNCHANGED tail

\* Events that concern no print.
OtherArrivals ==
    IF Quiet
    THEN { Arrival(event, NoPath, "none", Cur) :
             event \in {"PrinterStateChanged", "UpdatedFiles", "MetadataAnalysisFinished"} }
    ELSE {}
EnvOther == \E a \in OtherArrivals : Deliver(a) /\ UNCHANGED tail

\* The settings are saved with retry-on-pause switched, and the host reports it.
SettingsArrivals ==
    IF Quiet
    THEN { Arrival("SettingsUpdated", NoPath, "none", [Cur EXCEPT !.settings.enabled = e]) :
             e \in BOOLEAN }
    ELSE {}
EnvSettingsUpdated == \E a \in SettingsArrivals : Deliver(a) /\ UNCHANGED tail

\* Every event the host can deliver in the present state.
Arrivals ==
    StartedArrivals \cup DoneArrivals \cup FailedArrivals \cup CancelArrivals("C")
        \cup CancelArrivals("F") \cup TailArrivals \cup PausedArrivals
        \cup ResumedArrivals \cup OtherArrivals \cup SettingsArrivals

\* A second passes.
Tick ==
    /\ now < MaxTime
    /\ now' = now + 1
    /\ UNCHANGED <<inited, q, active, routine, pending, window, policy, settings,
                   paused, pstate, sel, tail, resumeAck, temps, resumes>>

\* --------------------------------------------------------------- requests
\* A request handler ran and left the state s.  The blueprint serves requests
\* once the plugin has started; the two reports of a cancellation arrive
\* together, with no request between them.
Request(s) ==
    /\ inited /\ tail = NoTail
    /\ Commit(s)
    /\ UNCHANGED <<inited, tail, now>>

\* move handing count and offs to the store in each other's place.
moveSwapped(s, can, idx, count, offs) ==
    IF ~can THEN s ELSE [s EXCEPT !.q = QueueMove(@, idx, offs, count)]

\* The permissions add_permissions registers, and Permissions.<key>.can() for a
\* caller holding the set held of them.
Permissions == {"STARTQUEUE", "ADDQUEUE", "RMQUEUE", "CHQUEUE", "ASSIGNQUEUE"}
Can(held, key) == key \in held

\* POST /move
move(s, can, idx, count, offs) ==
    IF ~can THEN s ELSE [s EXCEPT !.q = QueueMove(@, idx, count, offs)]

\* POST /assign: every field of an entry comes from the request.
assign(s, can, items) ==
    IF ~can THEN s ELSE [s EXCEPT !.q = QueueAssign(@, items)]

\* add taking the front of the queue when the request names no index.
addOmittedAtFront(s, can, idx, ids) ==
    IF ~can THEN s
    ELSE LET at == IF idx = -1 THEN 0 ELSE idx
             items == [k \in 1..Len(ids) |-> Fresh(ids[k])]
         IN [s EXCEPT !.q = QueueAdd(@, items, at)]

\* POST /add: idx is -1 when the request names no index.
add(s, can, idx, ids) ==
    IF ~can THEN s
    ELSE LET at == IF idx = -1 THEN Len(s.q) ELSE idx
             items == [k \in 1..Len(ids) |-> Fresh(ids[k])]
         IN [s EXCEPT !.q = QueueAdd(@, items, at)]

\* POST /remove
remove(s, can, idx, count) ==
    IF ~can THEN s ELSE [s EXCEPT !.q = QueueRemove(@, idx, count)]

\* POST /set_active
set_active(s, can, a) ==
    IF ~can THEN s ELSE driver_set_active(s, a, s.pstate = "OPERATIONAL")

\* The loop of clear stepping to the next position after a deletion as well.
RECURSIVE ClearLoopSkipping(_, _, _, _)
ClearLoopSkipping(qq, i, keep_failures, keep_non_ended) ==
    IF ~(i < Len(qq)) THEN qq
    ELSE LET v == qq[i + 1]
         IN IF (v.end_ts = NoTime /\ keep_non_ended) \/ (v.result = "failure" /\ keep_failures)
            THEN ClearLoopSkipping(qq, i + 1, keep_failures, keep_non_ended)
            ELSE ClearLoopSkipping(SeqRemove(qq, i + 1, 1), i + 1, keep_failures, keep_non_ended)

\* POST /clear: the while loop over the queue; i is 0-based.
RECURSIVE ClearLoop(_, _, _, _)
ClearLoop(qq, i, keep_failures, keep_non_ended) ==
    IF ~(i < Len(qq)) THEN qq
    ELSE LET v == qq[i + 1]
         IN IF v.end_ts = NoTime /\ keep_non_ended
            THEN ClearLoop(qq, i + 1, keep_failures, keep_non_ended)
            ELSE IF v.result = "failure" /\ keep_failures
            THEN ClearLoop(qq, i + 1, keep_failures, keep_non_ended)
            ELSE ClearLoop(SeqRemove(qq, i + 1, 1), i, keep_failures, keep_non_ended)

clear(s, keep_failures, keep_non_ended) ==
    [s EXCEPT !.q = ClearLoop(@, 0, keep_failures, keep_non_ended)]

\* POST /reset: the loop clears the timestamps of the listed entries; the call
\* after it names count, which nothing binds (and idx, unbound after an empty
\* loop), so the handler leaves with NameError.
RECURSIVE ResetLoop(_, _)
ResetLoop(qq, idxs) ==
    IF idxs = <<>> THEN qq
    ELSE ResetLoop([qq EXCEPT ![Head(idxs) + 1].start_ts = NoTime,
                              ![Head(idxs) + 1].end_ts = NoTime], Tail(idxs))

\* reset with count bound to 1: the call after the loop removes the last
\* listed entry.
resetRemoving(s, idxs) ==
    IF idxs = <<>> THEN Raise(s, "NameError")
    ELSE [s EXCEPT !.q = QueueRemove(ResetLoop(@, idxs), idxs[Len(idxs)], 1)]

reset(s, idxs) ==
    Raise([s EXCEPT !.q = ResetLoop(@, idxs)], "NameError")

\* resume_action_handler(comm, line, action): the hook for "//action:" lines of
\* the printer.  self.paused is bound by no constructor and by no startup code:
\* until on_event has assigned it, reading it raises AttributeError.  The call
\* self.d.set_active() takes the driver's defaults, active and printer_ready.
resume_action_handler(s, action) ==
    IF ~(action = "queuego") THEN s
    ELSE IF s.paused = "unset" THEN Raise(s, "AttributeError")
    ELSE IF s.paused = "true" THEN driver_set_active(Call(s, "set_active"), TRUE, TRUE)
    ELSE s

\* state_json(changed): the positions of the stored queue that the response
\* marks as changed. An index at or beyond the length is skipped; a negative
\* index counts from the end, as q[i] does, and fails beyond the front.
state_json(qq, changed) ==
    LET hit == { i \in changed : i < Len(qq) }
    IN [flagged |-> { IF i < 0 THEN Len(qq) + i ELSE i : i \in hit },
        err |-> IF \E i \in hit : i < -Len(qq) THEN "IndexError" ELSE "none"]

\* The responses of the four permitted requests: state_json of the queue after
\* the operation, with the changed argument each handler passes.
move_response(s, idx, count, offs) ==
    state_json(move(s, TRUE, idx, count, offs).q, (idx + offs)..(idx + offs + count - 1))
assign_response(s, items) ==
    state_json(assign(s, TRUE, items).q, {})
add_response(s, idx, ids) ==
    LET at == IF idx = -1 THEN Len(s.q) ELSE idx
    IN state_json(add(s, TRUE, idx, ids).q, at..(at + Len(ids) - 1))
remove_response(s, idx, count) ==
    state_json(remove(s, TRUE, idx, count).q, {idx})

\* The progress a request can give an entry: not attempted, in progress,
\* succeeded.
Progress == { [st |-> NoTime, en |-> NoTime, res |-> "none"],
              [st |-> now, en |-> NoTime, res |-> "none"],
              [st |-> now, en |-> now, res |-> "success"] }
AssignItems == { QueueItem(id, p.st, p.en, p.res, 0) :
                    id \in {i \in Pool : i.path = GoodPath}, p \in Progress }
Lists(S, n) == UNION { [1..k -> S] : k \in 0..n }

\* The members of a set of indices, in ascending order.
RECURSIVE Ascending(_)
Ascending(S) ==
    IF S = {} THEN <<>>
    ELSE LET m == CHOOSE x \in S : \A y \in S : x <= y
         IN <<m>> \o Ascending(S \ {m})

\* The inputs of a request are drawn when the caller holds the permission;
\* without it the handler returns before it reads them.
Move ==
    \E can \in BOOLEAN :
        IF can
        THEN \E idx \in 0..Len(q), count \in 1..MaxQueue, offs \in {-1, 1} :
                Request(move(Cur, TRUE, idx, count, offs))
        ELSE Request(move(Cur, FALSE, 0, 1, 1))

Assign ==
    \E can \in BOOLEAN :
        IF can
        THEN \E items \in Lists(AssignItems, MaxQueue) :
                Request(assign(Cur, TRUE, items))
        ELSE Request(assign(Cur, FALSE, <<>>))

Add ==
    \E can \in BOOLEAN :
        IF can
        THEN \E idx \in -1..(Len(q) + 1), ids \in Lists(Pool, MaxQueue) :
                /\ ids # <<>> /\ Len(q) + Len(ids) <= MaxQueue
                /\ Request(add(Cur, TRUE, idx, ids))
        ELSE Request(add(Cur, FALSE, 0, <<>>))

Remove ==
    \E can \in BOOLEAN :
        IF can
        THEN \E idx \in 0..Len(q), count \in 1..MaxQueue :
                Request(remove(Cur, TRUE, idx, count))
        ELSE Request(remove(Cur, FALSE, 0, 1))

SetActive ==
    \E can \in BOOLEAN, a \in BOOLEAN :
        /\ Len(pending) < MaxPending
        /\ Request(set_active(Cur, can, a))

\* The printer sends an action line.
PrinterActions == {"queuego", "cancel"}
ResumeAction ==
    \E action \in PrinterActions : Request(resume_action_handler(Cur, action))

Clear ==
    \E keep_failures \in BOOLEAN, keep_non_ended \in BOOLEAN :
        Request(clear(Cur, keep_failures, keep_non_ended))

Reset ==
    \E chosen \in SUBSET (0..(Len(q) - 1)) :
        Request(reset(Cur, Ascending(chosen)))

\* The automation: the print events of the host, entries added to the queue
\* and the queue switched on and off, with retry-on-pause at its default (off).
Next ==
    \/ OnAfterStartup
    \/ EnvPrintStarted
    \/ EnvPrintDone
    \/ EnvPrintFailed
    \/ EnvPrintCancelled
    \/ EnvTail
    \/ EnvPrintPaused
    \/ EnvPrintResumed
    \/ EnvOther
    \/ Add
    \/ SetActive

Spec == Init /\ [][Next]_vars

\* Retry-on-pause: pauses and resumes while time passes and the setting is
\* switched.
NextPause ==
    \/ OnAfterStartup
    \/ EnvPrintDone
    \/ EnvPrintPaused
    \/ EnvPrintResumed
    \/ EnvSettingsUpdated
    \/ Tick
    \/ SetActive
    \/ ResumeAction

SpecPause == InitPause /\ [][NextPause]_vars

\* The requests that edit the queue, while prints end.
NextEdit ==
    \/ OnAfterStartup
    \/ EnvPrintDone
    \/ EnvPrintFailed
    \/ Move
    \/ Assign
    \/ Add
    \/ Remove
    \/ SetActive
    \/ Clear
    \/ Reset

SpecEdit == Init /\ [][NextEdit]_vars

\* ------------------------------------------------------------- properties
\* What the handlers would do in the present state: on_event for every event
\* the host can deliver, set_active(true) for a caller with the permission.
Range(f) == { f[k] : k \in 1..Len(f) }
Count(f, x) == Cardinality({ k \in 1..Len(f) : f[k] = x })
InProgress(qq) == { i \in Idxs(qq) : qq[i].start_ts # NoTime /\ qq[i].end_ts = NoTime }
Serving == inited /\ tail = NoTail
SetActiveOutcome == set_active(Cur, TRUE, TRUE)

\* The arrival reports something of the entry in progress: no routine runs and
\* the payload names the file of the entry.
OfEntry(a) == a.pre.routine = "none" /\ CurIdx(q) # 0 /\ IsCurrent(a)

\* C9: when the file of the entry to start is missing or of the wrong type,
\* start_print catches the failure, sends an error message and returns: every
\* handler that issued a start command for such a file with the printer idle
\* ends without an exception and with the error message sent.
StartRefused(s) ==
    \E k \in 1..Len(s.cmds) :
        s.cmds[k].c = "start" /\ s.cmds[k].ps = "OPERATIONAL" /\ FileStatus(s.cmds[k].n) # "ok"
C9_StartFailureIsCaught ==
    inited =>
        /\ \A a \in Arrivals :
              StartRefused(Handle(a)) => Ok(Handle(a)) /\ "error" \in Handle(a).msgs
        /\ (tail = NoTail /\ StartRefused(SetActiveOutcome)) =>
              Ok(SetActiveOutcome) /\ "error" \in SetActiveOutcome.msgs

\* C1: on_event returns for every event delivered after startup, and when it
\* returns the printer is not OPERATIONAL or no action is pending.
C1_OnEventReturnsDrained ==
    inited =>
        \A a \in Arrivals :
            /\ Ok(Handle(a))
            /\ Handle(a).pstate # "OPERATIONAL" \/ pending_actions(Handle(a)) = 0

\* C2 as stated: every event invokes at most one outcome handler, at most
\* once; an event whose path is neither the driver's current path nor the
\* finish routine's file invokes none, and a print event for such a file
\* changes no queue entry.
PrintEvents == {"PrintStarted", "PrintDone", "PrintFailed", "PrintCancelled",
                "PrintPaused", "PrintResumed"}
Foreign(a) == ~IsCurrent(a) /\ a.payload.path # TempFile(FINISHED_SCRIPT_KEY)
C2_OneHandlerAndForeignChangesNothing ==
    inited =>
        \A a \in Arrivals :
            /\ Len(Handle(a).calls) <= 1
            /\ Foreign(a) => Handle(a).calls = <<>>
            /\ (Foreign(a) /\ a.event \in PrintEvents) => Handle(a).q = q

\* C2, amended: every event invokes at most one outcome handler, at most once,
\* and none when its path is neither the driver's current path nor the finish
\* routine's file; a print event for such a file changes no queue entry
\* unless an action is pending, which the loop then performs.
C2_OneHandlerPerEvent ==
    inited =>
        \A a \in Arrivals :
            /\ Len(Handle(a).calls) <= 1
            /\ Foreign(a) => Handle(a).calls = <<>>
            /\ (Foreign(a) /\ a.event \in PrintEvents /\ pending = <<>>) => Handle(a).q = q

\* A file printed by hand is selected and events of a print have been handled.
C2_Witness == inited /\ sel \in ManualPaths /\ paused # "unset" /\ CurIdx(q) # 0

\* C3 as stated: however the host reports the cancellation of the entry in
\* progress (PRINT_CANCELLED, PRINT_FAILED with reason "cancelled", or both),
\* on_print_failed is not invoked, on_print_cancelled is invoked exactly once
\* over the reports, and the entry has end_ts set and its result unset.
Ended(s, i) == s.q[i].end_ts # NoTime /\ s.q[i].result = "none"
C3_CancelHoweverReported ==
    inited =>
        /\ \A first \in {"C", "F"}, both \in BOOLEAN : \A a \in CancelArrivals(first) :
              OfEntry(a) =>
                 /\ "on_print_failed" \notin Range(Handle(a).calls)
                 /\ ~both => /\ Count(Handle(a).calls, "on_print_cancelled") = 1
                             /\ Ended(Handle(a), CurIdx(q))
        /\ \A a \in TailArrivals :
              tail.cur =>
                 /\ "on_print_failed" \notin Range(Handle(a).calls)
                 /\ Count(tail.calls \o Handle(a).calls, "on_print_cancelled") = 1

\* C3, amended: no report of a cancellation invokes on_print_failed; when
\* PRINT_CANCELLED is the first or the only report of the cancellation of the
\* entry in progress, on_print_cancelled is invoked exactly once over the
\* reports and the entry has end_ts set and its result as it was; when
\* PRINT_FAILED with reason "cancelled" comes first, on_print_cancelled is
\* invoked at most once, and not at all if no PRINT_CANCELLED follows.
C3_CancelReportedAsCancelled ==
    inited =>
        /\ \A first \in {"C", "F"} : \A a \in CancelArrivals(first) :
              /\ "on_print_failed" \notin Range(Handle(a).calls)
              /\ (first = "C" /\ OfEntry(a)) =>
                    /\ Handle(a).calls = <<"on_print_cancelled">>
                    /\ Handle(a).q[CurIdx(q)].end_ts # NoTime
                    /\ Handle(a).q[CurIdx(q)].result = q[CurIdx(q)].result
              /\ first = "F" => Handle(a).calls = <<>>
        /\ \A a \in TailArrivals :
              /\ "on_print_failed" \notin Range(Handle(a).calls)
              /\ (tail.cur /\ a.event = "PrintFailed") =>
                    tail.calls = <<"on_print_cancelled">> /\ Handle(a).calls = <<>>
              /\ a.event = "PrintCancelled" =>
                    Count(tail.calls \o Handle(a).calls, "on_print_cancelled") <= 1

\* The cancellation of the entry in progress was reported as PRINT_CANCELLED and
\* handled; the report as PRINT_FAILED is still to come.
C3_Witness ==
    /\ tail.ev = "PrintFailed" /\ tail.cur
    /\ tail.calls = <<"on_print_cancelled">>
    /\ \E i \in Idxs(q) : q[i].start_ts # NoTime /\ q[i].end_ts # NoTime /\ q[i].result = "none"

\* C4: when the entry in progress succeeds while the queue is active and an
\* unstarted entry remains, the entry gets result success and end_ts, the only
\* command of that event is the bed clearing; when the clearing routine then
\* completes, the start of the first unstarted entry is issued; and no start
\* command is ever issued while the printer is not idle.
StartsWhenIdle(s) ==
    \A k \in 1..Len(s.cmds) : s.cmds[k].c = "start" => s.cmds[k].ps = "OPERATIONAL"
C4_ClearBeforeNextStart ==
    inited =>
        /\ \A a \in Arrivals : StartsWhenIdle(Handle(a))
        /\ tail = NoTail => \A a \in BOOLEAN : StartsWhenIdle(set_active(Cur, TRUE, a))
        /\ \A a \in DoneArrivals :
              (OfEntry(a) /\ active /\ NextIdx(q) # 0) =>
                 /\ Handle(a).q[CurIdx(q)].result = "success"
                 /\ Handle(a).q[CurIdx(q)].end_ts # NoTime
                 /\ Len(Handle(a).cmds) = 1 /\ Handle(a).cmds[1].c = "clear"
                 /\ Handle(a).routine = "clearing"
                 /\ Handle(a).q[NextIdx(q)].start_ts = NoTime
        /\ \A a \in DoneArrivals :
              (routine = "clearing" /\ IsCurrent(a) /\ active /\ NextIdx(q) # 0) =>
                 /\ Len(Handle(a).cmds) = 1
                 /\ Handle(a).cmds[1] = [c |-> "start", n |-> q[NextIdx(q)].path,
                                         ps |-> "OPERATIONAL"]

\* An entry has succeeded, the clearing routine is over and a later entry is
\* being printed.
C4_Witness ==
    /\ active /\ routine = "none" /\ pstate = "PRINTING"
    /\ \E i \in Idxs(q), j \in Idxs(q) :
          /\ i < j /\ q[i].result = "success" /\ q[i].end_ts # NoTime
          /\ InProgress(q) = {j} /\ sel = q[j].path

\* C5: when a PRINT_FAILED that is no cancellation arrives for the entry in
\* progress while the queue is active and an unstarted entry remains, the
\* entry gets result failure and end_ts, and the start of the first unstarted
\* entry is issued in the handling of that event, the printer being idle.
C5_FailureDoesNotHaltQueue ==
    inited =>
        \A a \in FailedArrivals :
            (OfEntry(a) /\ active /\ NextIdx(q) # 0) =>
               /\ Handle(a).calls = <<"on_print_failed">>
               /\ Handle(a).q[CurIdx(q)].result = "failure"
               /\ Handle(a).q[CurIdx(q)].end_ts # NoTime
               /\ \E k \in 1..Len(Handle(a).cmds) :
                     Handle(a).cmds[k] = [c |-> "start", n |-> q[NextIdx(q)].path,
                                          ps |-> "OPERATIONAL"]

\* An entry has failed and a later entry is being printed.
C5_Witness ==
    /\ active /\ routine = "none" /\ pstate = "PRINTING"
    /\ \E i \in Idxs(q), j \in Idxs(q) :
          /\ i < j /\ q[i].result = "failure" /\ q[i].end_ts # NoTime
          /\ InProgress(q) = {j} /\ sel = q[j].path

\* C6 as stated: with retry-on-pause enabled, at most maxRetries resume commands
\* are issued for one queue entry over all its pauses; none is issued for a
\* pause that arrives more than maxSeconds after the first pause of the
\* window, nor for the pause of a temporary file.
Resumed(s) == HasCmd(s, "resume")
C7_AtMostOneInProgress == Cardinality(InProgress(q)) <= 1

\* C8: set_active(true) on the inactive queue, with every entry of a non-empty
\* queue unstarted: with the printer idle it returns having issued the start
\* of the first entry and set its start_ts; with the printer busy it issues no
\* start command and defers one action, for the loop of on_event to perform
\* when an event finds the printer idle.
C8_SetActiveStartsFirstEntry ==
    (Serving /\ ~active /\ q # <<>> /\ \A i \in Idxs(q) : q[i].start_ts = NoTime) =>
        IF pstate = "OPERATIONAL"
        THEN /\ Ok(SetActiveOutcome)
             /\ Issued(SetActiveOutcome, "start", q[1].path)
             /\ SetActiveOutcome.q[1].start_ts # NoTime
        ELSE /\ ~HasCmd(SetActiveOutcome, "start")
             /\ pending_actions(SetActiveOutcome) = pending_actions(Cur) + 1

\* C10: reset, for any non-empty list of indices of the queue and whatever
\* the progress of the entries, completes and leaves every listed entry with
\* start_ts and end_ts unset.
C10_ResetCompletes ==
    Serving =>
        \A chosen \in (SUBSET (0..(Len(q) - 1))) \ {{}} :
            LET s == reset(Cur, Ascending(chosen))
            IN /\ Ok(s)
               /\ \A i \in chosen : s.q[i + 1].start_ts = NoTime /\ s.q[i + 1].end_ts = NoTime

\* C11: reset changes nothing but start_ts and end_ts of the listed entries:
\* the queue keeps its length and its order, every entry keeps its name, path,
\* sd, job, run, result and retries, an entry that is not listed is untouched,
\* and nothing else of the state changes.
Identity(v) == [name |-> v.name, path |-> v.path, sd |-> v.sd, job |-> v.job, run |-> v.run,
                result |-> v.result, retries |-> v.retries]
C11_ResetChangesOnlyTimestamps ==
    Serving =>
        \A chosen \in SUBSET (0..(Len(q) - 1)) :
            LET s == reset(Cur, Ascending(chosen))
            IN /\ Len(s.q) = Len(q)
               /\ \A i \in Idxs(q) :
                     /\ Identity(s.q[i]) = Identity(q[i])
                     /\ (i - 1) \notin chosen => s.q[i] = q[i]
               /\ [s EXCEPT !.q = q, !.err = "none"] = Cur

\* An entry that had succeeded has been reset: it is still in the queue, with
\* its result, and its timestamps are unset.
C11_Witness ==
    \E i \in Idxs(q) :
        q[i].result = "success" /\ q[i].start_ts = NoTime /\ q[i].end_ts = NoTime

\* C12: clear(keep_failures, keep_non_ended) terminates and leaves exactly the
\* entries that are not ended with keep_non_ended set, or failed with
\* keep_failures set, in their original order; every other entry is removed.
\* On [A(success), B(failure), C(unstarted)] with keep_failures only, the
\* result is [B].
Kept(v, keep_failures, keep_non_ended) ==
    \/ v.end_ts = NoTime /\ keep_non_ended
    \/ v.result = "failure" /\ keep_failures
ExampleQueue ==
    LET A == CHOOSE id \in Pool : id.name = "A"
        C == CHOOSE id \in Pool : id.name = "C"
    IN << QueueItem(A, 1, 1, "success", 0),
          QueueItem(C, 1, 1, "failure", 0),
          QueueItem(A, NoTime, NoTime, "none", 0) >>
C12_ClearKeepsExactlyTheKept ==
    /\ Serving =>
          \A keep_failures, keep_non_ended \in BOOLEAN :
              LET s == clear(Cur, keep_failures, keep_non_ended)
              IN /\ s.err = "none"
                 /\ s.q = SelectSeq(q, LAMBDA v : Kept(v, keep_failures, keep_non_ended))
    /\ clear([Cur EXCEPT !.q = ExampleQueue], TRUE, FALSE).q = << ExampleQueue[2] >>

\* A queue holding a failed entry next to one that clear removes.
C12_Witness ==
    /\ Serving
    /\ \E i, j \in Idxs(q) :
          /\ q[i].result = "failure" /\ q[i].end_ts # NoTime
          /\ q[j].result # "failure" /\ q[j].end_ts # NoTime

\* C13: the response of move, assign, add and remove flags an index of the
\* resulting queue as changed if and only if the entry at that index differs
\* from the entry that was at the same index before the operation.
Differs(before, after, i) ==
    i >= Len(before) \/ before[i + 1] # after[i + 1]
ExactDiff(before, after, resp) ==
    /\ resp.err = "none"
    /\ \A i \in 0..(Len(after) - 1) : i \in resp.flagged <=> Differs(before, after, i)
C13_ChangedIsExactlyTheDiff ==
    Serving =>
        /\ \A idx \in 0..Len(q), count \in 1..MaxQueue, offs \in {-1, 1} :
              ExactDiff(q, move(Cur, TRUE, idx, count, offs).q,
                        move_response(Cur, idx, count, offs))
        /\ \A items \in Lists(AssignItems, MaxQueue) :
              ExactDiff(q, assign(Cur, TRUE, items).q, assign_response(Cur, items))
        /\ \A idx \in -1..(Len(q) + 1), ids \in Lists(Pool, MaxQueue) :
              ids # <<>> /\ Len(q) + Len(ids) <= MaxQueue =>
                  ExactDiff(q, add(Cur, TRUE, idx, ids).q, add_response(Cur, idx, ids))
        /\ \A idx \in 0..Len(q), count \in 1..MaxQueue :
              ExactDiff(q, remove(Cur, TRUE, idx, count).q, remove_response(Cur, idx, count))

\* C14: for a block [idx, idx+count) inside the queue and any offset, moving
\* the block by offs and then the block at idx+offs by -offs restores the
\* queue; one move keeps the length and the multiset of entries, the order of
\* the block (found at idx+offs when that target lies inside the queue, and
\* left at idx otherwise) and the order of the entries outside it.
Offsets == (0 - MaxQueue)..MaxQueue
Effective(qq, idx) ==
    IF idx = -1 \/ idx > Len(qq) THEN Len(qq) ELSE idx
C15_AddThenRemoveIsIdentity ==
    Serving =>
        \A idx \in -1..(Len(q) + 1), ids \in Lists(Pool, MaxQueue - Len(q)) :
            ids # <<>> =>
                LET s1 == add(Cur, TRUE, idx, ids)
                    s2 == remove(s1, TRUE, Effective(q, idx), Len(ids))
                IN /\ Len(s1.q) = Len(q) + Len(ids)
                   /\ s2.q = q
                   /\ s2.err = "none"

\* A non-empty queue with room for one more entry: an index beyond its end is
\* clamped, and an omitted index means the end.
C15_Witness ==
    /\ Serving
    /\ q # <<>>
    /\ Len(q) < MaxQueue
    /\ \E id \in Pool :
          /\ add(Cur, TRUE, Len(q) + 1, <<id>>).q = Append(q, Fresh(id))
          /\ add(Cur, TRUE, -1, <<id>>).q = Append(q, Fresh(id))
          /\ q[1] # Fresh(id)

\* C16: on_printer_ready is invoked only with the printer OPERATIONAL and at
\* least one action pending, never while the printer is printing or paused:
\* every invocation an event causes meets such a state, and a request causes
\* none.
ReadyOnlyWhenIdle(s) ==
    \A k \in 1..Len(s.ready) :
        /\ s.ready[k].ps = "OPERATIONAL"
        /\ s.ready[k].pending > 0
C16_ReadyOnlyWhenOperational ==
    inited =>
        /\ \A a \in Arrivals : ReadyOnlyWhenIdle(Handle(a))
        /\ tail = NoTail => \A a \in BOOLEAN : set_active(Cur, TRUE, a).ready = <<>>

\* An event arrives while an action is pending and the printer is idle, and
\* the loop invokes on_printer_ready; another arrives while an action is
\* pending and the printer is paused.
C16_Witness ==
    /\ inited
    /\ \E a \in Arrivals : Handle(a).ready # <<>>
    /\ \E a \in Arrivals : a.pre.pstate = "PAUSED" /\ pending_actions(a.pre) > 0

\* C17: a PRINT_DONE of the finish routine's temporary file ends the
\* automation: on_print_success is the one handler called, the driver is
\* inactive afterwards, no entry is marked and no bed clearing is issued.  A
\* PRINT_DONE of the entry in progress or of the clearing routine is not taken
\* for it: the driver stays as active as it was, the entry is marked success
\* and the bed clearing issued, and after the clearing routine an active driver
\* goes on to the next start or to the finish routine.
OfFinish(a) == a.payload.path = TempFile(FINISHED_SCRIPT_KEY)
C17_FinishOnlyForFinishFile ==
    inited =>
        \A a \in DoneArrivals :
            LET s == Handle(a)
            IN /\ OfFinish(a) =>
                     /\ s.calls = <<"on_print_success">>
                     /\ ~s.active
                     /\ s.q = q
                     /\ s.cmds = <<>>
               /\ (~OfFinish(a) /\ IsCurrent(a)) =>
                     /\ s.calls = <<"on_print_success">>
                     /\ s.active = active
                     /\ OfEntry(a) =>
                           /\ s.q[CurIdx(q)].result = "success"
                           /\ HasCmd(s, "clear")
                     /\ (routine = "clearing" /\ active) =>
                           HasCmd(s, "start") \/ HasCmd(s, "finish")

\* The finish routine's file completes while the driver is active; in the
\* state before, it was the clearing routine's that did.
C17_Witness ==
    /\ inited
    /\ active
    /\ \E a \in DoneArrivals : OfFinish(a)

\* C18: on METADATA_ANALYSIS_FINISHED no temporary file is deleted while the
\* printer is not OPERATIONAL and one of them is its selected file; in every
\* other case no temporary file exists after the event.
MetadataArrivals == { a \in OtherArrivals : a.event = "MetadataAnalysisFinished" }
TempFileInUse == pstate # "OPERATIONAL" /\ sel \in TEMP_FILES
C18_TempFilesKeptWhileInUse ==
    inited =>
        \A a \in MetadataArrivals :
            IF TempFileInUse
            THEN Handle(a).temps = temps
            ELSE Handle(a).temps \cap TEMP_FILES = {}

\* The analysis of a file ends while a routine's temporary file is printing.
C18_Witness ==
    /\ inited
    /\ MetadataArrivals # {}
    /\ TempFileInUse
    /\ sel \in temps

\* C19: the action "queuego" makes the handler call the driver's set_active
\* only when the plugin is paused; in every other state, also before any print
\* event has been handled, and for every other action, the handler calls
\* nothing, changes nothing and ends without error.
C19_QueuegoOnlyWhenPaused ==
    Serving =>
        \A action \in PrinterActions :
            LET s == resume_action_handler(Cur, action)
            IN IF action = "queuego" /\ paused = "true"
               THEN s.calls = <<"set_active">>
               ELSE s = Cur

\* C20: a caller holding none of the plugin's permissions changes neither the
\* queue nor the driver's active flag through move, assign, add, remove,
\* set_active, clear or reset.
Untouched(s) == s.q = q /\ s.active = active
C20_NoPermissionNoChange ==
    Serving =>
        LET held == {}
        IN /\ \A idx \in 0..Len(q), count \in 1..MaxQueue, offs \in {-1, 1} :
                Untouched(move(Cur, Can(held, "CHQUEUE"), idx, count, offs))
           /\ \A items \in Lists(AssignItems, MaxQueue) :
                Untouched(assign(Cur, Can(held, "ASSIGNQUEUE"), items))
           /\ \A idx \in -1..(Len(q) + 1), ids \in Lists(Pool, MaxQueue) :
                Untouched(add(Cur, Can(held, "ADDQUEUE"), idx, ids))
           /\ \A idx \in 0..Len(q), count \in 1..MaxQueue :
                Untouched(remove(Cur, Can(held, "RMQUEUE"), idx, count))
           /\ \A a \in BOOLEAN :
                Untouched(set_active(Cur, Can(held, "STARTQUEUE"), a))
           /\ \A keep_failures, keep_non_ended \in BOOLEAN :
                Untouched(clear(Cur, keep_failures, keep_non_ended))
           /\ \A chosen \in SUBSET (0..(Len(q) - 1)) :
                Untouched(reset(Cur, Ascending(chosen)))
====
